---- MODULE Spec2Model ----
(***************************************************************************)
(* Verification model of the LSIF indexing/upload orchestrator (package    *)
(* main: mainErr, ensureCloned, ensureIndexed, index, ensureAllUploaded,   *)
(* upload, parallelForRepo), of the bundle manager client (clientImpl) and *)
(* of its observability decorator (ObservedClient).                        *)
(*                                                                         *)
(* The specifications of the module:                                       *)
(*   Spec             one run of the orchestrator over a small corpus      *)
(*   SpecRerun        runs of the orchestrator over the same directory     *)
(*   SpecCacheKeys    the paths derived from two corpus entries            *)
(*   SpecClient       concurrent callers of one clientImpl                 *)
(*   SpecCancel       the same with cancellable contexts, under fairness   *)
(*   SpecRoundTrip    uploads sent to and fetched from the bundle manager  *)
(*   SpecObserved     concurrent callers of one ObservedClient             *)
(*   SpecObservedAny  the same, built with any logger and metric triples   *)
(***************************************************************************)
EXTENDS Integers, Sequences, FiniteSets, TLC

(***************************************************************************)
(* Corpus.  The program's corpus is the static slice `repos`; the model    *)
(* keeps its shape (several repositories with different numbers of         *)
(* revisions) at a size TLC can enumerate: the first repository has two    *)
(* revisions, the second one, and any further repository has none, so that *)
(* widening the repository fan-out leaves the number of pairs at three.    *)
(***************************************************************************)
NumRepos == 2

Repos == 1..NumRepos

\* repo.revs
Revs(r) == IF r = 1 THEN {1, 2} ELSE IF r = 2 THEN {1} ELSE {}

\* every (repository, revision) pair of the corpus
Tasks == {t \in Repos \X {1, 2} : t[2] \in Revs(t[1])}

TasksOf(r) == {t \in Tasks : t[1] = r}

(***************************************************************************)
(* Error values.  A Go error is a tuple tagged with the step that produced *)
(* it and the task it belongs to; the nil error is Nil.                    *)
(***************************************************************************)
Nil == <<"nil">>

Pending == <<"pending">>

Err(step, r, v) == <<"err", step, r, v>>

\* runCommand: nil when the subprocess exits 0, a wrapped error otherwise.
runCommand(ok, step, r, v) == IF ok THEN Nil ELSE Err(step, r, v)

\* os.Stat on a path in one of the states a path can be in: "absent"
\* (ENOENT), "unreadable" (any other error, e.g. EACCES) or there.
Stat(st) ==
    CASE st = "absent" -> "notexist"
      [] st = "unreadable" -> "error"
      [] OTHER -> "ok"

\* faulty variant: the existence check always returns early
StatReturnsAlways(st) == TRUE

\* faulty variant: the existence check never returns early
StatReturnsNever(st) == FALSE

\* `err == nil || !os.IsNotExist(err)`: the existence check returns early.
StatReturns(st) == Stat(st) # "notexist"

\* faulty variant: the early return yields nil whatever os.Stat said
StatErrSwallowed(st, r, v) == Nil

\* the value `return err` yields on that early return
StatErr(st, r, v) == IF Stat(st) = "ok" THEN Nil ELSE Err("stat", r, v)

\* faulty variant: the drain loop looks at the first result only
DrainFirstOnly(ch) == IF Len(ch) > 0 THEN ch[1] ELSE Nil

\* faulty variant: the drain loop keeps the last error it sees
DrainLast(ch) ==
    IF \E i \in 1..Len(ch) : ch[i] # Nil
    THEN ch[CHOOSE i \in 1..Len(ch) :
                ch[i] # Nil /\ \A j \in (i + 1)..Len(ch) : ch[j] = Nil]
    ELSE Nil

\* `for err := range errs { if err != nil { return err } }; return nil`
Drain(ch) ==
    IF \E i \in 1..Len(ch) : ch[i] # Nil
    THEN ch[CHOOSE i \in 1..Len(ch) :
                ch[i] # Nil /\ \A j \in 1..(i - 1) : ch[j] = Nil]
    ELSE Nil

\* faulty variant: the result channel is made without a buffer
ChanCapUnbuffered(n) == 0

\* `errs := make(chan error, n)`: the capacity of the result channel
ChanCap(n) == n

\* `errs <- ...`: a send goes through while the buffer has room (nothing
\* receives before wg.Wait has returned)
CanSend(ch, cap) == Len(ch) < cap

\* faulty variant: the fan-out does not wait for its workers
WaitDoneNever(n) == TRUE

\* wg.Wait() returns when the counter is zero.
WaitDone(n) == n = 0

\* faulty variant: mainErr ignores the error of a phase
PhaseAbortsNever(err) == FALSE

\* `if err := phase(); err != nil { return err }`
PhaseAborts(err) == err # Nil

\* the commands slice of index, in order
Commands == <<"cp", "checkout", "vendor", "lsif">>

\* faulty variant: the commands slice lacks `go mod vendor`
NextCommandSkip(c) ==
    CASE c = "cp" -> "checkout"
      [] c = "checkout" -> "lsif"
      [] OTHER -> "return"

\* the command after c in the slice, "return" after the last
NextCommand(c) ==
    CASE c = "cp" -> "checkout"
      [] c = "checkout" -> "vendor"
      [] c = "vendor" -> "lsif"
      [] OTHER -> "return"

\* repo.owner and repo.name of the corpus entries
Owner(r) == <<"owner", r>>

Name(r) == <<"name", r>>

\* fmt.Sprintf("%s.%s.dump", name, rev)
DumpName(name, rev) == <<name, rev, "dump">>

\* faulty variant: the dump file is named after the owner
UploadArgsOwnerFile(owner, name, rev) ==
    [repo |-> <<"github.com", owner, name>>, commit |-> rev,
     file |-> DumpName(owner, rev)]

\* the -repo, -commit and -file arguments upload passes to `src lsif upload`
UploadArgs(owner, name, rev) ==
    [repo |-> <<"github.com", owner, name>>, commit |-> rev,
     file |-> DumpName(name, rev)]

\* total of ensureAllUploaded
Total == Cardinality(Tasks)

VARIABLES
    mainPc,        \* position of main/mainErr
    phase,         \* index into phases (1 clone, 2 index, 3 upload)
    exitCode,      \* -1 while running, 0 or 1 once the process is over
    phaseResult,   \* what each phase() call returned, Pending before
    errs,          \* the errs channel of each phase's fan-out
    wg,            \* the WaitGroup counter of each phase's fan-out
    cloneDir,      \* repos/<name> on disk
    clonePc,       \* position of each ensureCloned worker
    cloneErr,      \* what each ensureCloned returned
    cloneAttempts, \* git clone invocations per repository
    repoPc,        \* position of each ensureIndexed worker
    repoResult,    \* what each ensureIndexed returned
    revErrs,       \* the errs channel of each ensureIndexed
    revWg,         \* the WaitGroup counter of each ensureIndexed
    idxPc,         \* position of each index task
    idxErr,        \* what each index call returned
    workspace,     \* whether the task's temporary directory exists
    wsCreated,     \* whether ioutil.TempDir ever succeeded for the task
    ran,           \* the subprocesses the index task has invoked, in order
    artifact,      \* indexes/<name>.<rev>.dump on disk
    upPc,          \* position of each upload task
    upErr,         \* what each upload returned
    uploads,       \* `src lsif upload` invocations per pair
    upArgs,        \* arguments of the pair's upload invocation
    cloneSeen,     \* state of repos/<name> when ensureCloned checked it
    artifact0,     \* state of each artifact file before the run
    run,           \* which run of the program this is, counted from 1
    prevExit,      \* exit code of the run before this one, -1 in the first
    workDirs       \* which of the directories "repos" and "indexes" exist

orchVars == <<mainPc, phase, exitCode, phaseResult, errs, wg, cloneDir, clonePc,
              cloneErr, cloneAttempts, repoPc, repoResult, revErrs, revWg,
              idxPc, idxErr, workspace, wsCreated, ran, artifact, upPc, upErr,
              uploads, upArgs, cloneSeen, artifact0, run, prevExit,
              workDirs>>

\* state of the clientImpl callers
VARIABLES
    cPc,       \* position of each caller inside its operation
    cOp,       \* the operation each caller is in, "none" outside one
    cRes,      \* what the caller's last operation returned
    held,      \* slots of httpLimiter currently taken
    bodyOpen,  \* whether the caller's response body is open
    cStatus,   \* the status of the response httpClient.Do returned, 0 if none
    slots,     \* per caller, Acquire calls not yet matched by a Release
    cancelled  \* whether the context of the caller's operation is cancelled

clientVars == <<cPc, cOp, cRes, held, bodyOpen, cStatus, slots, cancelled>>

\* state of the ObservedClient callers
VARIABLES
    oPc,        \* position of each caller inside the ObservedClient method
    oOp,        \* the method the caller is in
    oRet,       \* the named results of the method, set by its return statement
    issued,     \* calls made to the ObservedClient so far
    forwarded,  \* calls the ObservedClient made to c.base, per caller
    baseLog,    \* per caller, the results c.base returned, in order
    obsLog,     \* per caller, the results the ObservedClient returned, in order
    mDuration,  \* per operation, Duration observations
    mCount,     \* per operation, the Count counter
    mErrors,    \* per operation, the Errors counter
    logged,     \* calls of logger.Error
    spans,      \* spans finished by tr.Finish
    logger,     \* the logger given to NewObservedClient: "set" or "nil"
    absentMetrics, \* the operations whose field of ClientMetrics is nil
    oBundle     \* per caller, the bundle id of the BundleClient the query in
                \* progress was made on, and the id handed on to c.base

obsVars == <<oPc, oOp, oRet, issued, forwarded, baseLog, obsLog, mDuration,
             mCount, mErrors, logged, spans, logger, absentMetrics, oBundle>>

\* state of the transfers of uploads through the bundle manager
VARIABLES
    store,        \* what the bundle manager holds under each URL path
    sent,         \* per bundle id, the content of the last successful SendUpload
    interleaved,  \* per bundle id, whether another path was written since
    fetched,      \* the last GetUpload: its bundle id, result and file content
    transfers     \* operations made so far

rtVars == <<store, sent, interleaved, fetched, transfers>>

\* two entries of a corpus and the paths the orchestrator derives for them
VARIABLES
    entryA,    \* an (owner, name, rev) of the corpus
    entryB,    \* another one
    keyPc,     \* "input" before the paths are derived, "derived" after
    cloneKey,  \* the clone directories of the two entries
    indexKey   \* the index artifact paths of the two entries

keyVars == <<entryA, entryB, keyPc, cloneKey, indexKey>>

vars == <<orchVars, clientVars, obsVars, rtVars, keyVars>>

InitOrch ==
    /\ mainPc = "start"
    /\ phase = 1
    /\ exitCode = -1
    /\ phaseResult = [p \in 1..3 |-> Pending]
    /\ errs = [p \in 1..3 |-> <<>>]
    /\ wg = [p \in 1..3 |-> 0]
    /\ cloneDir \in [Repos -> {"absent", "present", "unreadable"}]
    /\ clonePc = [r \in Repos |-> "idle"]
    /\ cloneErr = [r \in Repos |-> Pending]
    /\ cloneAttempts = [r \in Repos |-> 0]
    /\ repoPc = [r \in Repos |-> "idle"]
    /\ repoResult = [r \in Repos |-> Pending]
    /\ revErrs = [r \in Repos |-> <<>>]
    /\ revWg = [r \in Repos |-> 0]
    /\ idxPc = [t \in Tasks |-> "idle"]
    /\ idxErr = [t \in Tasks |-> Pending]
    /\ workspace = [t \in Tasks |-> FALSE]
    /\ wsCreated = [t \in Tasks |-> FALSE]
    /\ ran = [t \in Tasks |-> <<>>]
    /\ artifact \in [Tasks -> {"absent", "complete", "unreadable"}]
    /\ upPc = [t \in Tasks |-> "idle"]
    /\ upErr = [t \in Tasks |-> Pending]
    /\ uploads = [t \in Tasks |-> 0]
    /\ upArgs = [t \in Tasks |-> <<>>]
    /\ cloneSeen = [r \in Repos |-> "unchecked"]
    /\ artifact0 = artifact
    /\ run = 1
    /\ prevExit = -1
    /\ workDirs = {d \in {"repos"} : \E r \in Repos : cloneDir[r] # "absent"}
                  \cup {d \in {"indexes"} : \E t \in Tasks : artifact[t] # "absent"}

(***************************************************************************)
(* main / mainErr                                                          *)
(***************************************************************************)
\* mainErr returned err: main prints it and exits 1; nil: main returns.
Exit(err) ==
    /\ mainPc' = "exited"
    /\ exitCode' = IF err # Nil THEN 1 ELSE 0

\* os.MkdirAll(dir, os.ModePerm): on a path that is a directory already it
\* does nothing and returns nil, otherwise it creates the directory or fails
MkdirAllMay(existing, dir) == IF dir \in existing THEN {TRUE} ELSE BOOLEAN

\* the loop over "repos" and "indexes", returning the first error
MkdirAll ==
    /\ mainPc = "start"
    /\ \E okRepos \in MkdirAllMay(workDirs, "repos") :
          IF ~okRepos
          THEN Exit(Err("mkdir", 0, 0)) /\ UNCHANGED workDirs
          ELSE \E okIndexes \in MkdirAllMay(workDirs, "indexes") :
                  IF ~okIndexes
                  THEN /\ Exit(Err("mkdir", 0, 0))
                       /\ workDirs' = workDirs \cup {"repos"}
                  ELSE /\ mainPc' = "spawn" /\ UNCHANGED exitCode
                       /\ workDirs' = {"repos", "indexes"}
    /\ UNCHANGED <<phase, phaseResult, errs, wg, cloneDir, clonePc, cloneErr,
                   cloneAttempts, repoPc, repoResult, revErrs, revWg, idxPc,
                   idxErr, workspace, wsCreated, ran, artifact, upPc, upErr,
                   uploads, upArgs>>
    /\ UNCHANGED <<clientVars, obsVars, rtVars, keyVars, run, prevExit, cloneSeen, artifact0>>

\* parallelForRepo(ensureCloned): one goroutine per repository, then wg.Wait.
\* The spawning loop is one step; its goroutines share nothing with it but
\* the channel and the WaitGroup, which it touches again only in wg.Wait.
StartClone ==
    /\ mainPc = "spawn" /\ phase = 1
    /\ mainPc' = "wait"
    /\ wg' = [wg EXCEPT ![1] = NumRepos]
    /\ clonePc' = [r \in Repos |-> "stat"]
    /\ UNCHANGED <<phase, exitCode, phaseResult, errs, cloneDir, cloneErr,
                   cloneAttempts, repoPc, repoResult, revErrs, revWg, idxPc,
                   idxErr, workspace, wsCreated, ran, artifact, upPc, upErr,
                   uploads, upArgs>>
    /\ UNCHANGED <<clientVars, obsVars, rtVars, keyVars, run, prevExit, workDirs, cloneSeen, artifact0>>

\* `errs <- f(repo)` followed by the deferred wg.Done() of a clone worker.
\* The send and the Done are one step: nothing reads the channel before
\* wg.Wait has returned, so no other goroutine can tell them apart.
CloneDeliver(r, e) ==
    /\ CanSend(errs[1], ChanCap(NumRepos))
    /\ clonePc' = [clonePc EXCEPT ![r] = "done"]
    /\ cloneErr' = [cloneErr EXCEPT ![r] = e]
    /\ errs' = [errs EXCEPT ![1] = Append(@, e)]
    /\ wg' = [wg EXCEPT ![1] = @ - 1]

\* ensureCloned up to its existence check
EnsureClonedStat(r) ==
    /\ clonePc[r] = "stat"
    /\ IF StatReturns(cloneDir[r])
       THEN CloneDeliver(r, StatErr(cloneDir[r], r, 0))
       ELSE /\ clonePc' = [clonePc EXCEPT ![r] = "clone"]
            /\ UNCHANGED <<cloneErr, errs, wg>>
    /\ UNCHANGED <<mainPc, phase, exitCode, phaseResult, cloneDir,
                   cloneAttempts, repoPc, repoResult, revErrs, revWg, idxPc,
                   idxErr, workspace, wsCreated, ran, artifact, upPc, upErr,
                   uploads, upArgs>>
    /\ cloneSeen' = [cloneSeen EXCEPT ![r] = cloneDir[r]]
    /\ UNCHANGED <<clientVars, obsVars, rtVars, keyVars, run, prevExit, workDirs, artifact0>>

\* ensureCloned's `git clone`
EnsureClonedClone(r) ==
    /\ clonePc[r] = "clone"
    /\ cloneAttempts' = [cloneAttempts EXCEPT ![r] = @ + 1]
    /\ \E ok \in BOOLEAN :
          /\ cloneDir' = [cloneDir EXCEPT ![r] = IF ok THEN "present" ELSE @]
          /\ CloneDeliver(r, runCommand(ok, "clone", r, 0))
    /\ UNCHANGED <<mainPc, phase, exitCode, phaseResult, repoPc, repoResult,
                   revErrs, revWg, idxPc, idxErr, workspace, wsCreated, ran,
                   artifact, upPc, upErr, uploads, upArgs>>
    /\ UNCHANGED <<clientVars, obsVars, rtVars, keyVars, run, prevExit, workDirs, cloneSeen, artifact0>>

\* wg.Wait, close(errs), the drain loop and the return of a phase's fan-out,
\* then the phases loop of mainErr
PhaseReturn ==
    /\ mainPc = "wait"
    /\ WaitDone(wg[phase])
    /\ LET err == Drain(errs[phase]) IN
          /\ phaseResult' = [phaseResult EXCEPT ![phase] = err]
          /\ IF PhaseAborts(err) \/ phase = 3
             THEN Exit(err) /\ UNCHANGED phase
             ELSE /\ mainPc' = "spawn"
                  /\ phase' = phase + 1
                  /\ UNCHANGED exitCode
    /\ UNCHANGED <<errs, wg, cloneDir, clonePc, cloneErr, cloneAttempts,
                   repoPc, repoResult, revErrs, revWg, idxPc, idxErr,
                   workspace, wsCreated, ran, artifact, upPc, upErr, uploads,
                   upArgs>>
    /\ UNCHANGED <<clientVars, obsVars, rtVars, keyVars, run, prevExit, workDirs, cloneSeen, artifact0>>

(***************************************************************************)
(* Index phase: parallelForRepo(ensureIndexed), ensureIndexed, index       *)
(***************************************************************************)
\* parallelForRepo(ensureIndexed): one goroutine per repository
StartIndex ==
    /\ mainPc = "spawn" /\ phase = 2
    /\ mainPc' = "wait"
    /\ wg' = [wg EXCEPT ![2] = NumRepos]
    /\ repoPc' = [r \in Repos |-> "spawn"]
    /\ UNCHANGED <<phase, exitCode, phaseResult, errs, cloneDir, clonePc,
                   cloneErr, cloneAttempts, repoResult, revErrs, revWg, idxPc,
                   idxErr, workspace, wsCreated, ran, artifact, upPc, upErr,
                   uploads, upArgs>>
    /\ UNCHANGED <<clientVars, obsVars, rtVars, keyVars, run, prevExit, workDirs, cloneSeen, artifact0>>

\* ensureIndexed: make(chan error, len(repo.revs)), one goroutine per revision
EnsureIndexedSpawn(r) ==
    /\ repoPc[r] = "spawn"
    /\ repoPc' = [repoPc EXCEPT ![r] = "wait"]
    /\ revWg' = [revWg EXCEPT ![r] = Cardinality(Revs(r))]
    /\ idxPc' = [t \in Tasks |-> IF t[1] = r THEN "stat" ELSE idxPc[t]]
    /\ UNCHANGED <<mainPc, phase, exitCode, phaseResult, errs, wg, cloneDir,
                   clonePc, cloneErr, cloneAttempts, repoResult, revErrs,
                   idxErr, workspace, wsCreated, ran, artifact, upPc, upErr,
                   uploads, upArgs>>
    /\ UNCHANGED <<clientVars, obsVars, rtVars, keyVars, run, prevExit, workDirs, cloneSeen, artifact0>>

\* faulty variant: the workspace is left in place
RemoveAllSkipped(exists) == exists

\* `defer os.RemoveAll(tempDir)`, registered once TempDir has succeeded
RemoveAll(exists) == FALSE

\* the return of index (its deferred cleanup included), then
\* `errs <- index(...)` and the deferred wg.Done() of the revision worker
IndexReturn(t, e) ==
    /\ CanSend(revErrs[t[1]], ChanCap(Cardinality(Revs(t[1]))))
    /\ idxPc' = [idxPc EXCEPT ![t] = "done"]
    /\ idxErr' = [idxErr EXCEPT ![t] = e]
    /\ workspace' = [workspace EXCEPT ![t] = IF wsCreated[t] THEN RemoveAll(@) ELSE @]
    /\ revErrs' = [revErrs EXCEPT ![t[1]] = Append(@, e)]
    /\ revWg' = [revWg EXCEPT ![t[1]] = @ - 1]

\* index up to its existence check of the artifact file.  filepath.Abs of
\* the relative path fails only when the working directory is gone, and a
\* removed working directory holds no indexes/ file; mainErr has just
\* created "indexes" under it, so that return is not taken here.
IndexStat(t) ==
    /\ idxPc[t] = "stat"
    /\ IF StatReturns(artifact[t])
       THEN IndexReturn(t, StatErr(artifact[t], t[1], t[2]))
       ELSE /\ idxPc' = [idxPc EXCEPT ![t] = "tempdir"]
            /\ UNCHANGED <<idxErr, workspace, revErrs, revWg>>
    /\ UNCHANGED <<mainPc, phase, exitCode, phaseResult, errs, wg, cloneDir,
                   clonePc, cloneErr, cloneAttempts, repoPc, repoResult,
                   wsCreated, ran, artifact, upPc, upErr, uploads, upArgs>>
    /\ UNCHANGED <<clientVars, obsVars, rtVars, keyVars, run, prevExit, workDirs, cloneSeen, artifact0>>

\* ioutil.TempDir(".", "")
IndexTempDir(t) ==
    /\ idxPc[t] = "tempdir"
    /\ \E ok \in BOOLEAN :
          IF ok
          THEN /\ idxPc' = [idxPc EXCEPT ![t] = Commands[1]]
               /\ workspace' = [workspace EXCEPT ![t] = TRUE]
               /\ wsCreated' = [wsCreated EXCEPT ![t] = TRUE]
               /\ UNCHANGED <<idxErr, revErrs, revWg>>
          ELSE /\ IndexReturn(t, Err("tempdir", t[1], t[2]))
               /\ UNCHANGED wsCreated
    /\ UNCHANGED <<mainPc, phase, exitCode, phaseResult, errs, wg, cloneDir,
                   clonePc, cloneErr, cloneAttempts, repoPc, repoResult, ran,
                   artifact, upPc, upErr, uploads, upArgs>>
    /\ UNCHANGED <<clientVars, obsVars, rtVars, keyVars, run, prevExit, workDirs, cloneSeen, artifact0>>

\* what a run of lsif-go leaves at its -o path: the complete dump on exit 0,
\* nothing or an unfinished file on a non-zero exit
IndexerOutput(ok, before) ==
    IF ok THEN {"complete"} ELSE {before, "partial"}

\* faulty variant: git checkout is run in the clone directory itself
CommandWritesInPlace(c) ==
    IF c = "checkout" THEN {"clone"}
    ELSE IF c = "lsif" THEN {"workspace", "artifact"}
    ELSE {"workspace"}

\* where a command of index writes: cp copies sourceDir into tempDir,
\* checkout, vendor and lsif-go run with cmd.Dir = targetDir, the copy in
\* the workspace, and lsif-go writes its -o file, the artifact
CommandWrites(c) ==
    IF c = "lsif" THEN {"workspace", "artifact"} ELSE {"workspace"}

\* one iteration of `for _, command := range commands`
IndexCommand(t) ==
    /\ idxPc[t] \in {Commands[i] : i \in 1..Len(Commands)}
    /\ ran' = [ran EXCEPT ![t] = Append(@, idxPc[t])]
    /\ cloneDir' = IF "clone" \in CommandWrites(idxPc[t])
                   THEN [cloneDir EXCEPT ![t[1]] = "modified"]
                   ELSE cloneDir
    /\ \E ok \in BOOLEAN :
          /\ IF "artifact" \in CommandWrites(idxPc[t])
             THEN \E out \in IndexerOutput(ok, artifact[t]) :
                     artifact' = [artifact EXCEPT ![t] = out]
             ELSE UNCHANGED artifact
          /\ IF ok /\ NextCommand(idxPc[t]) # "return"
             THEN /\ idxPc' = [idxPc EXCEPT ![t] = NextCommand(@)]
                  /\ UNCHANGED <<idxErr, workspace, revErrs, revWg>>
             ELSE IndexReturn(t, runCommand(ok, idxPc[t], t[1], t[2]))
    /\ UNCHANGED <<mainPc, phase, exitCode, phaseResult, errs, wg,
                   clonePc, cloneErr, cloneAttempts, repoPc, repoResult,
                   wsCreated, upPc, upErr, uploads, upArgs>>
    /\ UNCHANGED <<clientVars, obsVars, rtVars, keyVars, run, prevExit, workDirs, cloneSeen, artifact0>>

\* ensureIndexed: wg.Wait, close(errs), the drain loop and the return, then
\* `errs <- f(repo)` and wg.Done() of the repository worker
EnsureIndexedReturn(r) ==
    /\ repoPc[r] = "wait"
    /\ WaitDone(revWg[r])
    /\ CanSend(errs[2], ChanCap(NumRepos))
    /\ repoPc' = [repoPc EXCEPT ![r] = "done"]
    /\ repoResult' = [repoResult EXCEPT ![r] = Drain(revErrs[r])]
    /\ errs' = [errs EXCEPT ![2] = Append(@, Drain(revErrs[r]))]
    /\ wg' = [wg EXCEPT ![2] = @ - 1]
    /\ UNCHANGED <<mainPc, phase, exitCode, phaseResult, cloneDir, clonePc,
                   cloneErr, cloneAttempts, revErrs, revWg, idxPc, idxErr,
                   workspace, wsCreated, ran, artifact, upPc, upErr, uploads,
                   upArgs>>
    /\ UNCHANGED <<clientVars, obsVars, rtVars, keyVars, run, prevExit, workDirs, cloneSeen, artifact0>>

(***************************************************************************)
(* Upload phase: ensureAllUploaded, upload                                 *)
(***************************************************************************)
\* ensureAllUploaded: make(chan error, total), one goroutine per pair
StartUpload ==
    /\ mainPc = "spawn" /\ phase = 3
    /\ mainPc' = "wait"
    /\ wg' = [wg EXCEPT ![3] = Total]
    /\ upPc' = [t \in Tasks |-> "run"]
    /\ UNCHANGED <<phase, exitCode, phaseResult, errs, cloneDir, clonePc,
                   cloneErr, cloneAttempts, repoPc, repoResult, revErrs, revWg,
                   idxPc, idxErr, workspace, wsCreated, ran, artifact, upErr,
                   uploads, upArgs>>
    /\ UNCHANGED <<clientVars, obsVars, rtVars, keyVars, run, prevExit, workDirs, cloneSeen, artifact0>>

\* upload: `src lsif upload` for one pair, then `errs <- upload(...)` and
\* wg.Done() of its worker
Upload(t) ==
    /\ upPc[t] = "run"
    /\ CanSend(errs[3], ChanCap(Total))
    /\ \E ok \in BOOLEAN :
          /\ upErr' = [upErr EXCEPT ![t] = runCommand(ok, "upload", t[1], t[2])]
          /\ errs' = [errs EXCEPT ![3] = Append(@, runCommand(ok, "upload", t[1], t[2]))]
    /\ upPc' = [upPc EXCEPT ![t] = "done"]
    /\ uploads' = [uploads EXCEPT ![t] = @ + 1]
    /\ upArgs' = [upArgs EXCEPT ![t] = UploadArgs(Owner(t[1]), Name(t[1]), t[2])]
    /\ wg' = [wg EXCEPT ![3] = @ - 1]
    /\ UNCHANGED <<mainPc, phase, exitCode, phaseResult, cloneDir, clonePc,
                   cloneErr, cloneAttempts, repoPc, repoResult, revErrs, revWg,
                   idxPc, idxErr, workspace, wsCreated, ran, artifact>>
    /\ UNCHANGED <<clientVars, obsVars, rtVars, keyVars, run, prevExit, workDirs, cloneSeen, artifact0>>

\* runs of the program over the same working directory
MaxRuns == 2

\* the program is started again after it has exited: a new process with
\* new goroutines, channels and WaitGroups over the repos/ and indexes/
\* the earlier run left on disk
Rerun ==
    /\ mainPc = "exited"
    /\ run < MaxRuns
    /\ run' = run + 1
    /\ prevExit' = exitCode
    /\ mainPc' = "start"
    /\ phase' = 1
    /\ exitCode' = -1
    /\ phaseResult' = [p \in 1..3 |-> Pending]
    /\ errs' = [p \in 1..3 |-> <<>>]
    /\ wg' = [p \in 1..3 |-> 0]
    /\ clonePc' = [r \in Repos |-> "idle"]
    /\ cloneErr' = [r \in Repos |-> Pending]
    /\ cloneAttempts' = [r \in Repos |-> 0]
    /\ repoPc' = [r \in Repos |-> "idle"]
    /\ repoResult' = [r \in Repos |-> Pending]
    /\ revErrs' = [r \in Repos |-> <<>>]
    /\ revWg' = [r \in Repos |-> 0]
    /\ idxPc' = [t \in Tasks |-> "idle"]
    /\ idxErr' = [t \in Tasks |-> Pending]
    /\ workspace' = [t \in Tasks |-> FALSE]
    /\ wsCreated' = [t \in Tasks |-> FALSE]
    /\ ran' = [t \in Tasks |-> <<>>]
    /\ upPc' = [t \in Tasks |-> "idle"]
    /\ upErr' = [t \in Tasks |-> Pending]
    /\ uploads' = [t \in Tasks |-> 0]
    /\ upArgs' = [t \in Tasks |-> <<>>]
    /\ cloneSeen' = [r \in Repos |-> "unchecked"]
    /\ artifact0' = artifact
    /\ UNCHANGED <<cloneDir, artifact, workDirs>>
    /\ UNCHANGED <<clientVars, obsVars, rtVars, keyVars>>

NextOrch ==
    \/ MkdirAll
    \/ StartClone
    \/ \E r \in Repos : EnsureClonedStat(r)
    \/ \E r \in Repos : EnsureClonedClone(r)
    \/ StartIndex
    \/ \E r \in Repos : EnsureIndexedSpawn(r)
    \/ \E t \in Tasks : IndexStat(t)
    \/ \E t \in Tasks : IndexTempDir(t)
    \/ \E t \in Tasks : IndexCommand(t)
    \/ \E r \in Repos : EnsureIndexedReturn(r)
    \/ StartUpload
    \/ \E t \in Tasks : Upload(t)
    \/ PhaseReturn

\* the program run again and again
NextRerun ==
    \/ MkdirAll
    \/ StartClone
    \/ \E r \in Repos : EnsureClonedStat(r)
    \/ \E r \in Repos : EnsureClonedClone(r)
    \/ StartIndex
    \/ \E r \in Repos : EnsureIndexedSpawn(r)
    \/ \E t \in Tasks : IndexStat(t)
    \/ \E t \in Tasks : IndexTempDir(t)
    \/ \E t \in Tasks : IndexCommand(t)
    \/ \E r \in Repos : EnsureIndexedReturn(r)
    \/ StartUpload
    \/ \E t \in Tasks : Upload(t)
    \/ PhaseReturn
    \/ Rerun

(***************************************************************************)
(* The paths ensureCloned and index derive from a corpus entry             *)
(***************************************************************************)
\* longest repository name and revision, in characters
MaxLen == 2

\* characters of names and revisions
Alphabet == {"a", "."}

Strings == UNION {[1..n -> Alphabet] : n \in 1..MaxLen}

Owners == {"o1", "o2"}

Entries == [owner : Owners, name : Strings, rev : Strings]

\* ensureCloned, index: filepath.Join("repos", name)
CloneDir(owner, name) == <<"repos", name>>

\* index: filepath.Join("indexes", fmt.Sprintf("%s.%s.dump", name, rev))
IndexFile(name, rev) == <<"indexes", name \o <<".">> \o rev \o <<".dump">>>>

NoKeys == <<"none", "none">>

InitKeys ==
    /\ entryA \in Entries
    /\ entryB \in Entries
    /\ keyPc = "input"
    /\ cloneKey = NoKeys
    /\ indexKey = NoKeys

\* ensureCloned and index reach their existence checks for both entries
DeriveKeys ==
    /\ keyPc = "input"
    /\ keyPc' = "derived"
    /\ cloneKey' = <<CloneDir(entryA.owner, entryA.name),
                     CloneDir(entryB.owner, entryB.name)>>
    /\ indexKey' = <<IndexFile(entryA.name, entryA.rev),
                     IndexFile(entryB.name, entryB.rev)>>
    /\ UNCHANGED <<entryA, entryB>>
    /\ UNCHANGED <<orchVars, clientVars, obsVars, rtVars>>

NextKeys == DeriveKeys

(***************************************************************************)
(* clientImpl: the bundle manager client and its HTTP limiter              *)
(***************************************************************************)
\* concurrent callers of one clientImpl
NumCallers == 3

\* slots of httpLimiter; newClient makes parallel.NewRun(500), the model
\* keeps the limiter smaller than the number of callers
LimiterCapacity == 2

Callers == 1..NumCallers

Ops == {"SendUpload", "GetUpload", "SendDB", "queryBundle"}

\* response statuses the bundle manager may answer with
Statuses == {200, 204, 500}

\* http.StatusOK
StatusOK == 200

\* a (path, error) result pair; operations without a path leave it empty
Result(path, err) == [path |-> path, err |-> err]

NoResult == Result("", Pending)

InitClient ==
    /\ cPc = [k \in Callers |-> "idle"]
    /\ cOp = [k \in Callers |-> "none"]
    /\ cRes = [k \in Callers |-> NoResult]
    /\ held = 0
    /\ bodyOpen = [k \in Callers |-> FALSE]
    /\ cStatus = [k \in Callers |-> 0]
    /\ slots = [k \in Callers |-> 0]
    /\ cancelled = [k \in Callers |-> FALSE]

\* HTTP calls dispatched by httpClient.Do and not yet returned
InFlight == Cardinality({k \in Callers : cPc[k] = "http"})

\* faulty variant: Acquire never blocks
CanAcquireAlways(n) == TRUE

\* httpLimiter.Acquire(): the send on the limiter channel of capacity
\* LimiterCapacity goes through only while a slot is free
CanAcquire(n) == n < LimiterCapacity

\* the operation returns to its caller
Return(k, res) ==
    /\ cPc' = [cPc EXCEPT ![k] = "returned"]
    /\ cOp' = [cOp EXCEPT ![k] = "none"]
    /\ cRes' = [cRes EXCEPT ![k] = res]

\* an operation up to the limiter: StartSpanFromContext, makeURL and
\* http.NewRequest, either of which may fail before anything is dispatched;
\* the operation is called with a context that is not cancelled yet
Call(k, op) ==
    /\ cPc[k] \in {"idle", "returned"}
    /\ \E ok \in BOOLEAN :
          IF ok
          THEN /\ cPc' = [cPc EXCEPT ![k] = "acquire"]
               /\ cOp' = [cOp EXCEPT ![k] = op]
               /\ cRes' = [cRes EXCEPT ![k] = NoResult]
          ELSE Return(k, Result("", Err("request", 0, 0)))
    /\ cStatus' = [cStatus EXCEPT ![k] = 0]
    /\ cancelled' = [cancelled EXCEPT ![k] = FALSE]
    /\ UNCHANGED <<held, bodyOpen, slots>>
    /\ UNCHANGED <<orchVars, obsVars, rtVars, keyVars>>

\* do: c.httpLimiter.Acquire()
Acquire(k) ==
    /\ cPc[k] = "acquire"
    /\ CanAcquire(held)
    /\ held' = held + 1
    /\ slots' = [slots EXCEPT ![k] = @ + 1]
    /\ cPc' = [cPc EXCEPT ![k] = "http"]
    /\ UNCHANGED <<cOp, cRes, bodyOpen, cStatus, cancelled>>
    /\ UNCHANGED <<orchVars, obsVars, rtVars, keyVars>>

\* do: `resp.StatusCode != http.StatusOK`
StatusFails(code) == code # StatusOK

\* faulty variant: the slot is kept
ReleaseSkipped(n) == n

\* httpLimiter.Release(), deferred in do: one slot is given back
Release(n) == n - 1

\* faulty variant: the body is left open
CloseSkipped(open) == open

\* resp.Body.Close() in do, body.Close() in the operations
Close(open) == FALSE

\* what c.httpClient.Do(req) may return: an error (0) or a response with
\* its status; with a cancelled context it returns the context's error
DoOutcomes(ctxCancelled) == IF ctxCancelled THEN {0} ELSE {0} \cup Statuses

\* do: c.httpClient.Do(req) returns, the status check with its
\* resp.Body.Close(), and the deferred Release as do returns
HttpDo(k) ==
    /\ cPc[k] = "http"
    /\ held' = Release(held)
    /\ slots' = [slots EXCEPT ![k] = Release(@)]
    /\ \E outcome \in DoOutcomes(cancelled[k]) :
          /\ cStatus' = [cStatus EXCEPT ![k] = outcome]
          /\ IF outcome = 0
             THEN Return(k, Result("", Err("transport", 0, 0))) /\ UNCHANGED bodyOpen
             ELSE IF StatusFails(outcome)
             THEN /\ Return(k, Result("", Err("status", outcome, 0)))
                  /\ bodyOpen' = [bodyOpen EXCEPT ![k] = Close(TRUE)]
             ELSE /\ cPc' = [cPc EXCEPT ![k] = "body"]
                  /\ bodyOpen' = [bodyOpen EXCEPT ![k] = TRUE]
                  /\ UNCHANGED <<cOp, cRes>>
    /\ UNCHANGED cancelled
    /\ UNCHANGED <<orchVars, obsVars, rtVars, keyVars>>

\* GetUpload after do: openRandomFile, io.Copy, the deferred f.Close that
\* sets err when it is still nil, and the deferred body.Close
GetUploadResult(createOk, copyOk, closeOk) ==
    IF ~createOk THEN Result("", Err("create", 0, 0))
    ELSE IF ~copyOk THEN Result("", Err("copy", 0, 0))
    ELSE IF ~closeOk THEN Result("file", Err("close", 0, 0))
    ELSE Result("file", Nil)

\* the rest of an operation once do has returned the response body
Body(k) ==
    /\ cPc[k] = "body"
    /\ bodyOpen' = [bodyOpen EXCEPT ![k] = Close(@)]
    /\ CASE cOp[k] \in {"SendUpload", "SendDB"} ->
                Return(k, Result("", Nil))
         [] cOp[k] = "GetUpload" ->
                \E createOk, copyOk, closeOk \in BOOLEAN :
                    Return(k, GetUploadResult(createOk, copyOk, closeOk))
         [] OTHER ->
                \E decodeOk \in BOOLEAN :
                    Return(k, Result("", IF decodeOk THEN Nil ELSE Err("decode", 0, 0)))
    /\ UNCHANGED <<held, cStatus, slots, cancelled>>
    /\ UNCHANGED <<orchVars, obsVars, rtVars, keyVars>>

\* the caller cancels the context of its operation while the operation is
\* waiting for a slot or inside httpClient.Do
Cancel(k) ==
    /\ cPc[k] \in {"acquire", "http"}
    /\ ~cancelled[k]
    /\ cancelled' = [cancelled EXCEPT ![k] = TRUE]
    /\ UNCHANGED <<cPc, cOp, cRes, held, bodyOpen, cStatus, slots>>
    /\ UNCHANGED <<orchVars, obsVars, rtVars, keyVars>>

NextClient ==
    \/ \E k \in Callers, op \in Ops : Call(k, op)
    \/ \E k \in Callers : Acquire(k)
    \/ \E k \in Callers : HttpDo(k)
    \/ \E k \in Callers : Body(k)

\* the client with callers that may cancel their contexts
NextCancel ==
    \/ \E k \in Callers, op \in Ops : Call(k, op)
    \/ \E k \in Callers : Acquire(k)
    \/ \E k \in Callers : HttpDo(k)
    \/ \E k \in Callers : Body(k)
    \/ \E k \in Callers : Cancel(k)

\* what the scheduling of the callers' goroutines guarantees: a send on the
\* limiter channel that is possible again and again goes through, a
\* httpClient.Do whose context is cancelled returns, and an operation that
\* has its response body runs to its return. A httpClient.Do whose context
\* is live may never return: http.DefaultClient sets no timeout.
FairCancel ==
    \A k \in Callers :
       /\ SF_vars(Acquire(k))
       /\ WF_vars(HttpDo(k) /\ cancelled[k])
       /\ WF_vars(Body(k))

(***************************************************************************)
(* SendUpload, SendDB and GetUpload against the bundle manager's storage   *)
(***************************************************************************)
\* bundle identifiers in use
NumBundles == 2

\* operations in one behaviour
MaxTransfers == 4

BundleIDs == 1..NumBundles

\* byte contents of uploads and databases
Contents == {"x", "y"}

NoContent == "none"

\* SendUpload: makeURL(c.url, fmt.Sprintf("uploads/%d", bundleID), nil)
SendUploadPath(b) == <<"uploads", b>>

\* SendDB: makeURL(c.url, fmt.Sprintf("dbs/%d", bundleID), nil)
SendDBPath(b) == <<"dbs", b>>

\* faulty variant: the upload is fetched from the database path
GetUploadPathDB(b) == <<"dbs", b>>

\* GetUpload: makeURL(c.url, fmt.Sprintf("uploads/%d", bundleID), nil)
GetUploadPath(b) == <<"uploads", b>>

Paths == {<<d, b>> : d \in {"uploads", "dbs"}, b \in BundleIDs}

\* the bundle manager handling a POST: it stores the request body it
\* received under the path of the request
BackendPost(st, path, content, received) ==
    IF received THEN [st EXCEPT ![path] = content] ELSE st

\* the statuses the bundle manager may answer a GET with: it serves what
\* it holds under the path and has nothing to serve for an unwritten path
BackendGet(st, path) ==
    IF st[path] = NoContent THEN Statuses \ {StatusOK, 204} ELSE Statuses

\* io.Copy(f, body): the file receives the bytes of the body
Copy(body) == body

NoFetch ==
    [id |-> 0, res |-> NoResult, content |-> NoContent, expected |-> NoContent,
     interleaved |-> FALSE]

InitRT ==
    /\ store = [p \in Paths |-> NoContent]
    /\ sent = [b \in BundleIDs |-> NoContent]
    /\ interleaved = [b \in BundleIDs |-> FALSE]
    /\ fetched = NoFetch
    /\ transfers = 0

\* the outcomes of do: the request could not be built (-1), or
\* httpClient.Do returned an error (0) or a response with its status
Outcomes(statuses) == {-1, 0} \cup statuses

\* the error of an operation up to the return of do
DoErr(outcome) ==
    IF outcome = -1 THEN Err("request", 0, 0)
    ELSE IF outcome = 0 THEN Err("transport", 0, 0)
    ELSE IF StatusFails(outcome) THEN Err("status", outcome, 0)
    ELSE Nil

\* whether the bundle manager may have received the body of a POST with
\* this outcome: never when the request was not built, always when it
\* answered 200, otherwise it may or may not have
Received(outcome) ==
    IF outcome = -1 THEN {FALSE}
    ELSE IF DoErr(outcome) = Nil THEN {TRUE}
    ELSE BOOLEAN

\* SendUpload(ctx, bundleID, r) as a whole
RTSendUpload(b, content) ==
    /\ transfers < MaxTransfers
    /\ transfers' = transfers + 1
    /\ \E outcome \in Outcomes(Statuses) : \E received \in Received(outcome) :
          /\ store' = BackendPost(store, SendUploadPath(b), content, received)
          /\ sent' = [sent EXCEPT ![b] =
                        IF DoErr(outcome) = Nil THEN content
                        ELSE IF store' # store THEN "unknown" ELSE @]
          /\ interleaved' = [c \in BundleIDs |->
                               IF c = b THEN interleaved[b] /\ DoErr(outcome) # Nil
                               ELSE interleaved[c] \/ store' # store]
    /\ UNCHANGED fetched
    /\ UNCHANGED <<orchVars, clientVars, obsVars, keyVars>>

\* SendDB(ctx, bundleID, r) as a whole
RTSendDB(b, content) ==
    /\ transfers < MaxTransfers
    /\ transfers' = transfers + 1
    /\ \E outcome \in Outcomes(Statuses) : \E received \in Received(outcome) :
          /\ store' = BackendPost(store, SendDBPath(b), content, received)
          /\ interleaved' = [c \in BundleIDs |-> interleaved[c] \/ store' # store]
    /\ UNCHANGED <<sent, fetched>>
    /\ UNCHANGED <<orchVars, clientVars, obsVars, keyVars>>

\* what GetUpload may return after do returned the body
GetUploadResults ==
    {GetUploadResult(createOk, copyOk, closeOk) : createOk, copyOk, closeOk \in BOOLEAN}

\* GetUpload(ctx, bundleID, dir) as a whole; io.Copy has filled the file
\* when GetUpload returns a path
RTGetUpload(b) ==
    /\ transfers < MaxTransfers
    /\ transfers' = transfers + 1
    /\ \E outcome \in Outcomes(BackendGet(store, GetUploadPath(b))) :
       \E res \in IF DoErr(outcome) # Nil THEN {Result("", DoErr(outcome))}
                  ELSE GetUploadResults :
          fetched' = [id |-> b,
                      res |-> res,
                      content |-> IF res.path # ""
                                  THEN Copy(store[GetUploadPath(b)]) ELSE NoContent,
                      expected |-> sent[b],
                      interleaved |-> interleaved[b]]
    /\ UNCHANGED <<store, sent, interleaved>>
    /\ UNCHANGED <<orchVars, clientVars, obsVars, keyVars>>

NextRT ==
    \/ \E b \in BundleIDs, content \in Contents : RTSendUpload(b, content)
    \/ \E b \in BundleIDs, content \in Contents : RTSendDB(b, content)
    \/ \E b \in BundleIDs : RTGetUpload(b)

(***************************************************************************)
(* ObservedClient: the decorator over a ClientBase                         *)
(***************************************************************************)
\* calls issued to the ObservedClient in one behaviour
MaxCalls == 3

ObsCallers == {"a", "b"}

ObsOps == {"SendUpload", "GetUpload", "SendDB", "QueryBundle"}

\* what the wrapped ClientBase may return from an operation
BaseResults(op) ==
    IF op = "GetUpload"
    THEN {Result("file", Nil), Result("", Err("base", 0, 0)),
          Result("file", Err("base", 0, 0))}
    ELSE {Result("", Nil), Result("", Err("base", 0, 0))}

\* no query through a BundleClient is in progress
NoBundle == [asked |-> 0, received |-> 0]

\* faulty variant: the BundleClient is built over the wrapped client, as the
\* default BundleClient of the wrapped client would be
BundleClientBaseWrapped(self, wrapped) == wrapped

\* ObservedClient.BundleClient: `&bundleClientImpl{base: c, bundleID: bundleID}`,
\* the client the BundleClient sends its queries to is the ObservedClient
BundleClientBase(self, wrapped) == self

\* a query method of the BundleClient: it calls QueryBundle of its base with
\* the bundle id it was constructed with
BundleClientQueryID(bundleID) == bundleID

\* ObservedClient.QueryBundle: `c.base.QueryBundle(ctx, bundleID, op, qs, &target)`
QueryBundleForward(bundleID) == bundleID

\* whether the call in progress of caller k was made on a BundleClient
ViaBundle(k) == oBundle[k] # NoBundle

\* whether the call in progress of caller k runs inside a method of the
\* ObservedClient
InObserved(k) ==
    ViaBundle(k) => BundleClientBase("observed", "base") = "observed"

\* an ObservedClient on which no method has been called yet
InitObsCalls ==
    /\ oPc = [k \in ObsCallers |-> "idle"]
    /\ oOp = [k \in ObsCallers |-> "none"]
    /\ oRet = [k \in ObsCallers |-> NoResult]
    /\ issued = 0
    /\ forwarded = [k \in ObsCallers |-> 0]
    /\ oBundle = [k \in ObsCallers |-> NoBundle]
    /\ baseLog = [k \in ObsCallers |-> <<>>]
    /\ obsLog = [k \in ObsCallers |-> <<>>]
    /\ mDuration = [op \in ObsOps |-> 0]
    /\ mCount = [op \in ObsOps |-> 0]
    /\ mErrors = [op \in ObsOps |-> 0]
    /\ logged = 0
    /\ spans = 0

\* NewObservedClient with a non-nil logger, metrics and tracer
InitObs ==
    /\ InitObsCalls
    /\ logger = "set"
    /\ absentMetrics = {}

\* NewObservedClient with any logger and any ClientMetrics: the logger may
\* be the nil interface and each *OperationMetrics field may be nil
InitObsAny ==
    /\ InitObsCalls
    /\ logger \in {"set", "nil"}
    /\ absentMetrics \in SUBSET ObsOps

\* a method of the ObservedClient up to `return c.base.X(...)`: c.tracer.New,
\* the defer statement, and the call of the wrapped client
ObsCall(k, op) ==
    /\ oPc[k] = "idle"
    /\ issued < MaxCalls
    /\ issued' = issued + 1
    /\ oPc' = [oPc EXCEPT ![k] = "base"]
    /\ oOp' = [oOp EXCEPT ![k] = op]
    /\ forwarded' = [forwarded EXCEPT ![k] = @ + 1]
    /\ oRet' = [oRet EXCEPT ![k] = NoResult]
    /\ UNCHANGED <<baseLog, obsLog, mDuration, mCount, mErrors, logged, spans,
                   logger, absentMetrics, oBundle>>
    /\ UNCHANGED <<orchVars, clientVars, rtVars, keyVars>>

\* a query on the BundleClient that ObservedClient.BundleClient(b) returned:
\* the BundleClient calls QueryBundle of its base, and ObservedClient.QueryBundle
\* runs up to `return c.base.QueryBundle(...)` as every method does
BundleQuery(k, b) ==
    /\ oPc[k] = "idle"
    /\ issued < MaxCalls
    /\ issued' = issued + 1
    /\ oBundle' = [oBundle EXCEPT ![k] =
                     [asked |-> b,
                      received |-> IF BundleClientBase("observed", "base") = "observed"
                                   THEN QueryBundleForward(BundleClientQueryID(b))
                                   ELSE BundleClientQueryID(b)]]
    /\ oPc' = [oPc EXCEPT ![k] = "base"]
    /\ oOp' = [oOp EXCEPT ![k] = "QueryBundle"]
    /\ forwarded' = IF BundleClientBase("observed", "base") = "observed"
                    THEN [forwarded EXCEPT ![k] = @ + 1]
                    ELSE forwarded
    /\ oRet' = [oRet EXCEPT ![k] = NoResult]
    /\ UNCHANGED <<baseLog, obsLog, mDuration, mCount, mErrors, logged, spans,
                   logger, absentMetrics>>
    /\ UNCHANGED <<orchVars, clientVars, rtVars, keyVars>>

\* c.base.X returns and the return statement sets the named results; a call
\* that did not come through the ObservedClient returns to its caller
BaseReturn(k) ==
    /\ oPc[k] = "base"
    /\ \E res \in BaseResults(oOp[k]) :
          /\ oRet' = [oRet EXCEPT ![k] = res]
          /\ baseLog' = [baseLog EXCEPT ![k] = Append(@, <<oOp[k], res>>)]
    /\ IF InObserved(k)
       THEN /\ oPc' = [oPc EXCEPT ![k] = "defer"]
            /\ UNCHANGED oBundle
       ELSE /\ oPc' = [oPc EXCEPT ![k] = "idle"]
            /\ oBundle' = [oBundle EXCEPT ![k] = NoBundle]
    /\ UNCHANGED <<oOp, issued, forwarded, obsLog, mDuration, mCount, mErrors,
                   logged, spans, logger, absentMetrics>>
    /\ UNCHANGED <<orchVars, clientVars, rtVars, keyVars>>

\* faulty variant: the deferred function clears the error
AfterDeferSwallow(res) == Result(res.path, Nil)

\* the named results as the deferred function leaves them: it reads err for
\* Observe, log and tr.SetError and assigns neither result
AfterDefer(res) == res

\* faulty variant: every observation counts as an error
ErrorsAddAlways(err) == 1

\* OperationMetrics.Observe: `if err != nil { m.Errors...Add(1) }`
ErrorsAdd(err) == IF err # Nil THEN 1 ELSE 0

\* log: `if err == nil { return }`, else one lg.Error call
LogCalls(err) == IF err = Nil THEN 0 ELSE 1

\* OperationMetrics.Observe: `if m == nil { return }`
Observes(op, absent) == IF op \in absent THEN 0 ELSE 1

\* log: lg.Error(...) on a nil ErrorLogger is a call through a nil
\* interface, which panics; log returns before it when err is nil
LogPanics(lg, err) == lg = "nil" /\ err # Nil

\* what a caller gets when the method panics instead of returning
Panicked == Result("", <<"panic">>)

\* the deferred function (Observe, log, tr.SetError, tr.Finish), then the
\* method returns its named results to the caller; a panic in log leaves
\* the deferred function before tr.SetError and tr.Finish and unwinds into
\* the caller
ObsReturn(k) ==
    /\ oPc[k] = "defer"
    /\ LET op == oOp[k]
           err == oRet[k].err
           seen == Observes(op, absentMetrics)
       IN /\ mDuration' = [mDuration EXCEPT ![op] = @ + seen]
          /\ mCount' = [mCount EXCEPT ![op] = @ + seen]
          /\ mErrors' = [mErrors EXCEPT ![op] = @ + seen * ErrorsAdd(err)]
          /\ IF LogPanics(logger, err)
             THEN /\ UNCHANGED <<logged, spans>>
                  /\ obsLog' = [obsLog EXCEPT ![k] = Append(@, <<op, Panicked>>)]
                  /\ oPc' = [oPc EXCEPT ![k] = "panicked"]
             ELSE /\ logged' = logged + LogCalls(err)
                  /\ spans' = spans + 1
                  /\ obsLog' = [obsLog EXCEPT ![k] =
                                  Append(@, <<op, AfterDefer(oRet[k])>>)]
                  /\ oPc' = [oPc EXCEPT ![k] = "idle"]
    /\ oBundle' = [oBundle EXCEPT ![k] = NoBundle]
    /\ UNCHANGED <<oOp, oRet, issued, forwarded, baseLog, logger, absentMetrics>>
    /\ UNCHANGED <<orchVars, clientVars, rtVars, keyVars>>

NextObs ==
    \/ \E k \in ObsCallers, op \in ObsOps : ObsCall(k, op)
    \/ \E k \in ObsCallers, b \in BundleIDs : BundleQuery(k, b)
    \/ \E k \in ObsCallers : BaseReturn(k)
    \/ \E k \in ObsCallers : ObsReturn(k)

(***************************************************************************)
(* Properties                                                              *)
(***************************************************************************)
IsErr(e) == e # Nil /\ e # Pending

\* the results of the tasks a phase fans out to
PhaseTaskResults(p) ==
    IF p = 1 THEN {cloneErr[r] : r \in Repos}
    ELSE IF p = 2 THEN {repoResult[r] : r \in Repos}
    ELSE {upErr[t] : t \in Tasks}

\* C1: a fan-out (parallelForRepo for the clone and index phases,
\* ensureAllUploaded, and ensureIndexed for each repository) has returned
\* only if every one of its tasks has delivered its result, and what it
\* returned is a non-nil error exactly when at least one task failed.
C1_FanOutAggregation ==
    /\ \A p \in 1..3 :
          phaseResult[p] # Pending =>
             /\ Pending \notin PhaseTaskResults(p)
             /\ phaseResult[p] # Nil <=> \E e \in PhaseTaskResults(p) : e # Nil
    /\ \A r \in Repos :
          repoResult[r] # Pending =>
             /\ \A t \in TasksOf(r) : idxErr[t] # Pending
             /\ repoResult[r] # Nil <=> \E t \in TasksOf(r) : idxErr[t] # Nil

\* the index fan-out returned an error while one ensureIndexed returned nil
\* and another returned an error although the first result its channel
\* delivered was the nil of a successful revision
C1_Witness ==
    /\ IsErr(phaseResult[2])
    /\ \E r \in Repos :
          /\ IsErr(repoResult[r])
          /\ Len(revErrs[r]) = 2
          /\ revErrs[r][1] = Nil
          /\ \E t \in TasksOf(r) : idxErr[t] = Nil
    /\ \E r \in Repos : repoResult[r] = Nil

\* C2: no index task (and no ensureIndexed worker) has started unless every
\* clone task has finished, and no upload task has started unless every
\* index task and every ensureIndexed worker has finished.
C2_PhaseOrder ==
    /\ (\/ \E r \in Repos : repoPc[r] # "idle"
        \/ \E t \in Tasks : idxPc[t] # "idle")
          => \A r \in Repos : clonePc[r] = "done"
    /\ (\E t \in Tasks : upPc[t] # "idle")
          => /\ \A r \in Repos : clonePc[r] = "done" /\ repoPc[r] = "done"
             /\ \A t \in Tasks : idxPc[t] = "done"

\* an upload task is running after both earlier phases, one of whose clone
\* tasks cloned and one of whose index tasks ran the indexer
C2_Witness ==
    /\ \E t \in Tasks : upPc[t] = "run"
    /\ \E r \in Repos : cloneAttempts[r] = 1
    /\ \E t \in Tasks : Len(ran[t]) = 4

\* no element of a sequence of invoked commands occurs twice
NoRepeat(q) == \A i, j \in 1..Len(q) : q[i] = q[j] => i = j

\* C3: once a phase has returned an error the process has exited with
\* status 1 and no task of a later phase has been started; whenever a clone
\* or index task has failed no upload has been invoked; and no task runs a
\* clone, an index command or an upload more than once.
C3_AbortOnPhaseError ==
    /\ \A p \in 1..3 :
          IsErr(phaseResult[p]) =>
             /\ mainPc = "exited" /\ exitCode = 1
             /\ p = 1 => /\ \A r \in Repos : repoPc[r] = "idle"
                         /\ \A t \in Tasks : idxPc[t] = "idle"
             /\ p < 3 => \A t \in Tasks : upPc[t] = "idle" /\ uploads[t] = 0
    /\ (\/ \E r \in Repos : IsErr(cloneErr[r])
        \/ \E t \in Tasks : IsErr(idxErr[t]))
          => \A t \in Tasks : upPc[t] = "idle" /\ uploads[t] = 0
    /\ \A r \in Repos : cloneAttempts[r] <= 1
    /\ \A t \in Tasks : NoRepeat(ran[t]) /\ uploads[t] <= 1

\* the index phase failed because one indexer run failed while the other
\* index tasks succeeded, and the process is over with status 1
C3_Witness ==
    /\ IsErr(phaseResult[2])
    /\ exitCode = 1
    /\ \E t \in Tasks : idxErr[t] = Err("lsif", t[1], t[2])
    /\ \E t \in Tasks : idxErr[t] = Nil /\ Len(ran[t]) = 4

\* C4: at most LimiterCapacity HTTP calls of one clientImpl are in flight,
\* whatever the operations and however many callers there are; the slots
\* taken are exactly the calls in flight.
C4_LimiterBound ==
    /\ InFlight <= LimiterCapacity
    /\ held = InFlight

\* the limiter is full with calls of two different operations and a further
\* caller is waiting in Acquire
C4_Witness ==
    /\ InFlight = LimiterCapacity
    /\ \E j, k \in Callers : cPc[j] = "http" /\ cPc[k] = "http" /\ cOp[j] # cOp[k]
    /\ \E k \in Callers : cPc[k] = "acquire" /\ cOp[k] = "queryBundle"

\* C5: the workspace of an index task exists only while the task is between
\* its TempDir call and its return: once index has returned, on whichever
\* path, the workspace is gone.
C5_WorkspaceCleanup ==
    \A t \in Tasks :
       /\ idxPc[t] = "done" => ~workspace[t]
       /\ workspace[t] => wsCreated[t] /\ idxPc[t] \in {"cp", "checkout", "vendor", "lsif"}

\* three tasks that each created a workspace have returned, one after a
\* failed indexer run, one after a failed checkout and one successfully
C5_Witness ==
    \E t1, t2, t3 \in Tasks :
       /\ wsCreated[t1] /\ idxErr[t1] = Err("lsif", t1[1], t1[2])
       /\ wsCreated[t2] /\ idxErr[t2] = Err("checkout", t2[1], t2[2])
       /\ wsCreated[t3] /\ idxErr[t3] = Nil
       /\ \A t \in {t1, t2, t3} : idxPc[t] = "done" /\ ~workspace[t]

\* q is the slice of the first n commands
IsPrefix(q, n) == Len(q) = n /\ \A i \in 1..n : q[i] = Commands[i]

\* position of a command in the commands slice
CommandIndex(c) == CHOOSE i \in 1..Len(Commands) : Commands[i] = c

\* C6: an index task invokes cp, checkout, vendor and lsif in that order;
\* a task that returned the error of a command ran the commands up to that
\* one and none after it, and the error is its own; a task that returned
\* nil after its existence check ran all four; and a task that has not
\* returned can always take its next step, whatever its siblings returned.
C6_IndexFailureSemantics ==
    \A t \in Tasks :
       /\ \E n \in 0..Len(Commands) : IsPrefix(ran[t], n)
       /\ idxPc[t] = "done" =>
             /\ IsErr(idxErr[t]) => idxErr[t][3] = t[1] /\ idxErr[t][4] = t[2]
             /\ \A c \in {"cp", "checkout", "vendor", "lsif"} :
                   idxErr[t] = Err(c, t[1], t[2]) => IsPrefix(ran[t], CommandIndex(c))
             /\ (idxErr[t] = Nil /\ wsCreated[t]) => IsPrefix(ran[t], 4)
             /\ idxErr[t] \in {Err("stat", t[1], t[2]), Err("tempdir", t[1], t[2])}
                   => ran[t] = <<>>
       /\ idxPc[t] \notin {"idle", "done"} =>
             ENABLED (IndexStat(t) \/ IndexTempDir(t) \/ IndexCommand(t))

\* the first revision of a repository failed at checkout after cp, and its
\* sibling delivered nil after that failure, having run all four commands
C6_Witness ==
    /\ idxErr[<<1, 1>>] = Err("checkout", 1, 1)
    /\ ran[<<1, 1>>] = <<"cp", "checkout">>
    /\ idxPc[<<1, 2>>] = "done"
    /\ idxErr[<<1, 2>>] = Nil
    /\ ran[<<1, 2>>] = Commands
    /\ revErrs[1] = <<Err("checkout", 1, 1), Nil>>

\* C7: a clone task runs `git clone` once when its check found the directory
\* absent and not at all when the check found it present; no repository is
\* cloned more than once in a run.
C7_CloneIdempotent ==
    \A r \in Repos :
       /\ cloneAttempts[r] <= 1
       /\ cloneAttempts[r] = 1 => cloneSeen[r] = "absent"
       /\ clonePc[r] = "done" =>
             /\ cloneSeen[r] = "absent" => cloneAttempts[r] = 1
             /\ cloneSeen[r] = "present" => cloneAttempts[r] = 0

\* the clone phase has returned for a corpus with one directory absent
\* (cloned once) and one present (not cloned)
C7_Witness ==
    /\ phaseResult[1] # Pending
    /\ \E r \in Repos : cloneSeen[r] = "absent" /\ cloneAttempts[r] = 1
    /\ \E r \in Repos : cloneSeen[r] = "present" /\ cloneAttempts[r] = 0

\* C8: for a pair whose artifact file exists before the run, the index task
\* invokes no command, creates no workspace, leaves the file as it is and
\* returns nil.
C8_IndexIdempotent ==
    \A t \in Tasks :
       artifact0[t] = "complete" =>
          /\ ran[t] = <<>>
          /\ ~wsCreated[t] /\ ~workspace[t]
          /\ artifact[t] = "complete"
          /\ idxPc[t] \in {"idle", "stat", "done"}
          /\ idxPc[t] = "done" => idxErr[t] = Nil

\* the index phase has returned; one pair's artifact existed and was
\* skipped while another pair of the same repository was indexed
C8_Witness ==
    /\ phaseResult[2] # Pending
    /\ \E t, u \in Tasks :
          /\ t[1] = u[1]
          /\ artifact0[t] = "complete" /\ idxPc[t] = "done" /\ idxErr[t] = Nil
          /\ artifact0[u] = "absent" /\ ran[u] = Commands

\* C9: once the upload fan-out has returned, upload has been invoked
\* exactly once for every pair of the corpus, with that pair's repository,
\* commit and dump file name, whether or not the pair's artifact predates
\* the run; upload is never invoked twice for a pair.
C9_UploadCoverage ==
    /\ \A t \in Tasks :
          /\ uploads[t] <= 1
          /\ uploads[t] = 1 =>
                upArgs[t] = [repo |-> <<"github.com", <<"owner", t[1]>>, <<"name", t[1]>>>>,
                             commit |-> t[2],
                             file |-> <<<<"name", t[1]>>, t[2], "dump">>]
    /\ phaseResult[3] # Pending => \A t \in Tasks : uploads[t] = 1

\* the upload phase has returned, having uploaded a pair whose artifact
\* predates the run and a pair indexed in this run, one upload failing
C9_Witness ==
    /\ phaseResult[3] # Pending
    /\ \E t \in Tasks : artifact0[t] = "complete" /\ uploads[t] = 1
    /\ \E t \in Tasks : artifact0[t] = "absent" /\ uploads[t] = 1 /\ IsErr(upErr[t])

\* C10: for every caller, the results the ObservedClient has returned are,
\* in order, the results the wrapped client returned for the same calls
\* (error and path), and every call was forwarded to the wrapped client
\* exactly once.
C10_ObservedTransparent ==
    \A k \in ObsCallers :
       /\ Len(baseLog[k]) = Len(obsLog[k]) + (IF oPc[k] = "defer" THEN 1 ELSE 0)
       /\ \A i \in 1..Len(obsLog[k]) : obsLog[k][i] = baseLog[k][i]
       /\ forwarded[k] = Len(obsLog[k]) + (IF oPc[k] = "idle" THEN 0 ELSE 1)

\* one caller has got back the error of a failed QueryBundle and then the
\* path of a GetUpload, while the other caller's SendDB is in the base
C10_Witness ==
    \E k, j \in ObsCallers :
       /\ Len(obsLog[k]) = 2
       /\ obsLog[k][1] = <<"QueryBundle", Result("", Err("base", 0, 0))>>
       /\ obsLog[k][2] = <<"GetUpload", Result("file", Nil)>>
       /\ oPc[j] = "base" /\ oOp[j] = "SendDB"

\* the error of the last result the ObservedClient returned to caller k
LastReturnedErr(log) == log[Len(log)][2].err

\* C11: a step in which a call of the ObservedClient returns adds exactly
\* one duration observation and exactly 1 to the count of the operation
\* called, finishes exactly one span, and adds 1 to that operation's error
\* count and makes one error-log call exactly when the error returned is
\* not nil; the counters of the other operations stay as they are; a step
\* in which no call returns changes no counter; no counter decreases.
C11_ExactlyOnceObservation ==
    [][/\ \A op \in ObsOps :
             /\ mDuration'[op] >= mDuration[op]
             /\ mCount'[op] >= mCount[op]
             /\ mErrors'[op] >= mErrors[op]
       /\ logged' >= logged /\ spans' >= spans
       /\ \A k \in ObsCallers :
             Len(obsLog'[k]) = Len(obsLog[k]) + 1 =>
                LET op == oOp[k]
                    n == IF LastReturnedErr(obsLog'[k]) # Nil THEN 1 ELSE 0
                IN /\ mDuration'[op] = mDuration[op] + 1
                   /\ mCount'[op] = mCount[op] + 1
                   /\ spans' = spans + 1
                   /\ mErrors'[op] = mErrors[op] + n
                   /\ logged' = logged + n
                   /\ \A o \in ObsOps \ {op} :
                         /\ mDuration'[o] = mDuration[o]
                         /\ mCount'[o] = mCount[o]
                         /\ mErrors'[o] = mErrors[o]
       /\ (\A k \in ObsCallers : obsLog'[k] = obsLog[k]) =>
             UNCHANGED <<mDuration, mCount, mErrors, logged, spans>>
      ]_vars

\* a failed GetUpload and a successful SendDB have both returned: one error
\* counted and logged, two spans finished, each operation counted once
C11_Witness ==
    /\ mCount["GetUpload"] = 1 /\ mDuration["GetUpload"] = 1
    /\ mErrors["GetUpload"] = 1
    /\ mCount["SendDB"] = 1 /\ mDuration["SendDB"] = 1
    /\ mErrors["SendDB"] = 0
    /\ logged = 1 /\ spans = 2
    /\ mCount["SendUpload"] = 0 /\ mCount["QueryBundle"] = 0

\* the OK class of response statuses
IsOKClass(code) == code \in 200..299

\* C12: an operation that has returned after httpClient.Do delivered a
\* response did not fail on the status when the status is in the 2xx class,
\* and for any other status it returned the status error carrying that
\* status code, without a path.
C12_StatusClassification ==
    \A k \in Callers :
       (cPc[k] = "returned" /\ cStatus[k] # 0) =>
          IF IsOKClass(cStatus[k])
          THEN cRes[k].err # Err("status", cStatus[k], 0)
          ELSE cRes[k] = Result("", Err("status", cStatus[k], 0))

\* C13: a response body is open only while its operation is between the
\* return of do and its own return: whenever an operation has returned, on
\* whichever path (status error, temporary file not created, copy failed,
\* decode failed, file close failed, success), its response body is closed.
C13_NoBodyLeak ==
    \A k \in Callers :
       /\ cPc[k] \in {"idle", "returned"} => ~bodyOpen[k]
       /\ bodyOpen[k] => cPc[k] = "body" /\ cStatus[k] = StatusOK

\* three operations have returned with their bodies closed: one refused on
\* its status, a GetUpload whose copy failed and a queryBundle whose decode
\* failed
C13_Witness ==
    \E i, j, k \in Callers :
       /\ cPc[i] = "returned" /\ cRes[i].err = Err("status", 500, 0)
       /\ cPc[j] = "returned" /\ cRes[j].err = Err("copy", 0, 0)
       /\ cPc[k] = "returned" /\ cRes[k].err = Err("decode", 0, 0)
       /\ ~bodyOpen[i] /\ ~bodyOpen[j] /\ ~bodyOpen[k]

\* the callers that hold a slot
Holders == {k \in Callers : slots[k] > 0}

\* C14: an operation holds exactly one slot of the limiter while it is
\* inside httpClient.Do and none anywhere else (waiting for a slot, after a
\* transport failure or a status error, while the body is consumed, after
\* its return); the slots taken from the limiter are the ones the callers
\* hold; and when no operation is inside httpClient.Do every slot is free.
C14_SlotProtocol ==
    /\ \A k \in Callers : slots[k] = IF cPc[k] = "http" THEN 1 ELSE 0
    /\ held = Cardinality(Holders)
    /\ held \in 0..LimiterCapacity
    /\ InFlight = 0 => held = 0

\* no call is in flight and every slot is free again after a transport
\* failure, a status error and a response whose body is being consumed
C14_Witness ==
    /\ InFlight = 0 /\ held = 0
    /\ \E i, j, k \in Callers :
          /\ cPc[i] = "returned" /\ cRes[i].err = Err("transport", 0, 0)
          /\ cPc[j] = "returned" /\ cRes[j].err = Err("status", 500, 0)
          /\ cPc[k] = "body" /\ bodyOpen[k]

\* C15: once the context of an operation that is waiting for a limiter slot
\* or is inside httpClient.Do has been cancelled, the operation eventually
\* returns to its caller with an error, whatever the other callers do.
C15_CancellationPropagation ==
    \A k \in Callers :
       (cancelled[k] /\ cPc[k] \in {"acquire", "http"})
          ~> (cPc[k] = "returned" /\ IsErr(cRes[k].err))

\* C16: a GetUpload that succeeded for a bundle id whose last write was a
\* successful SendUpload has produced a file with exactly the content that
\* SendUpload sent, whatever was written under other paths in between.
C16_RoundTrip ==
    (fetched.res.err = Nil /\ fetched.expected \in Contents) =>
       /\ fetched.res.path # ""
       /\ fetched.content = fetched.expected

\* a GetUpload returned the content sent for bundle 1 after a different
\* content was stored for bundle 2 and as the database of bundle 1
C16_Witness ==
    /\ fetched.id = 1 /\ fetched.res = Result("file", Nil)
    /\ fetched.expected = "x" /\ fetched.content = "x"
    /\ fetched.interleaved
    /\ store[<<"uploads", 2>>] = "y"
    /\ store[<<"dbs", 1>>] = "y"

\* C17: once the paths of two corpus entries are derived, entries of
\* different repositories (owner or name differ) have different clone
\* directories, and entries that differ in repository or revision have
\* different index artifact paths.
C17_CacheKeyDisjoint ==
    keyPc = "derived" =>
       /\ <<entryA.owner, entryA.name>> # <<entryB.owner, entryB.name>>
             => cloneKey[1] # cloneKey[2]
       /\ entryA # entryB => indexKey[1] # indexKey[2]

\* C18: an index task that found its artifact file and returned nil
\* without indexing found the complete output of an indexer run that
\* succeeded, in the run that wrote the file as in any later run.
C18_ArtifactComplete ==
    \A t \in Tasks :
       (idxPc[t] = "done" /\ idxErr[t] = Nil /\ ~wsCreated[t]) =>
          artifact[t] = "complete"

\* C19: whatever logger and metric triples the ObservedClient was built
\* with, every result a caller has received from it is the result the
\* wrapped client returned for that call.
C19_TelemetryIsolation ==
    \A k \in ObsCallers :
       \A i \in 1..Len(obsLog[k]) :
          /\ i <= Len(baseLog[k])
          /\ obsLog[k][i][2] = baseLog[k][i][2]

\* C20 as stated: a clone task whose os.Stat of the clone directory failed
\* with an error other than not-found, and an index task whose os.Stat of
\* the artifact file failed so, have returned nil and run no subprocess.
C20_StatErrorSwallowed ==
    /\ \A r \in Repos :
          (clonePc[r] = "done" /\ cloneSeen[r] = "unreadable") =>
             cloneErr[r] = Nil /\ cloneAttempts[r] = 0
    /\ \A t \in Tasks :
          (idxPc[t] = "done" /\ artifact0[t] = "unreadable") =>
             idxErr[t] = Nil /\ ran[t] = <<>> /\ ~wsCreated[t]

\* C20 as amended: such a task has returned the error of os.Stat, so it
\* counts as failed, and has run no subprocess (no git clone; no workspace,
\* no cp, checkout, vendor or lsif-go) and left the path as it was.
C20_StatErrorPropagated ==
    /\ \A r \in Repos :
          (clonePc[r] = "done" /\ cloneSeen[r] = "unreadable") =>
             /\ cloneErr[r] = Err("stat", r, 0)
             /\ cloneAttempts[r] = 0
             /\ cloneDir[r] = "unreadable"
    /\ \A t \in Tasks :
          (idxPc[t] = "done" /\ artifact0[t] = "unreadable") =>
             /\ idxErr[t] = Err("stat", t[1], t[2])
             /\ ran[t] = <<>> /\ ~wsCreated[t]
             /\ artifact[t] = "unreadable"

\* the index phase has failed with the stat error of a pair whose artifact
\* file could not be examined, while a sibling pair was indexed
C20_Witness ==
    \E t, u \in Tasks :
       /\ artifact0[t] = "unreadable" /\ idxPc[t] = "done"
       /\ idxErr[t] = Err("stat", t[1], t[2]) /\ ran[t] = <<>>
       /\ u[1] = t[1] /\ idxErr[u] = Nil /\ ran[u] = Commands
       /\ phaseResult[2] = Err("stat", t[1], t[2])
       /\ exitCode = 1

\* res is what a fan-out returned over the results delivered in ch: nil
\* when every result is nil, otherwise an error that was delivered with
\* nothing but nil results delivered before it
SelectsFirstFailure(res, ch) ==
    IF \A i \in 1..Len(ch) : ch[i] = Nil
    THEN res = Nil
    ELSE /\ IsErr(res)
         /\ \E i \in 1..Len(ch) :
               ch[i] = res /\ \A j \in 1..(i - 1) : ch[j] = Nil

\* C21: what a fan-out has returned when some of its tasks failed is the
\* error of a failed task of that fan-out, namely the one whose result was
\* delivered before that of any other failed task; it is a single task's
\* error and not nil.
C21_AggregateErrorSelection ==
    /\ \A p \in 1..3 :
          phaseResult[p] # Pending =>
             /\ SelectsFirstFailure(phaseResult[p], errs[p])
             /\ IsErr(phaseResult[p]) => phaseResult[p] \in PhaseTaskResults(p)
    /\ \A r \in Repos :
          repoResult[r] # Pending =>
             /\ SelectsFirstFailure(repoResult[r], revErrs[r])
             /\ IsErr(repoResult[r]) =>
                   repoResult[r] \in {idxErr[t] : t \in TasksOf(r)}

\* the upload fan-out returned the error of the last pair of the corpus,
\* delivered first, although the first pair of the corpus failed too
C21_Witness ==
    /\ Len(errs[3]) = Total
    /\ errs[3][1] = Err("upload", 2, 1)
    /\ errs[3][Total] = Err("upload", 1, 1)
    /\ phaseResult[3] = Err("upload", 2, 1)

\* workers of phase p that have been started and have not delivered yet
Undelivered(p) ==
    IF p = 1 THEN {r \in Repos : clonePc[r] \notin {"idle", "done"}}
    ELSE IF p = 2 THEN {r \in Repos : repoPc[r] \notin {"idle", "done"}}
    ELSE {t \in Tasks : upPc[t] \notin {"idle", "done"}}

\* C22: in each fan-out the result channel has room for the result of
\* every worker that has not delivered yet and never holds more results
\* than workers were started; a worker that has its result can always
\* deliver it; and once every worker of a fan-out has delivered, the
\* fan-out can return.
C22_FanInNeverBlocks ==
    /\ \A p \in 1..3 :
          /\ Len(errs[p]) + Cardinality(Undelivered(p))
                <= (IF p = 3 THEN Total ELSE NumRepos)
          /\ wg[p] = Cardinality(Undelivered(p))
    /\ \A r \in Repos :
          LET open == {t \in TasksOf(r) : idxPc[t] \notin {"idle", "done"}}
          IN /\ Len(revErrs[r]) + Cardinality(open) <= Cardinality(Revs(r))
             /\ revWg[r] = Cardinality(open)
    /\ \A r \in Repos :
          /\ clonePc[r] \notin {"idle", "done"} =>
                ENABLED (EnsureClonedStat(r) \/ EnsureClonedClone(r))
          /\ (repoPc[r] = "wait" /\ \A t \in TasksOf(r) : idxPc[t] = "done") =>
                ENABLED EnsureIndexedReturn(r)
    /\ \A t \in Tasks :
          /\ idxPc[t] \notin {"idle", "done"} =>
                ENABLED (IndexStat(t) \/ IndexTempDir(t) \/ IndexCommand(t))
          /\ upPc[t] = "run" => ENABLED Upload(t)
    /\ (mainPc = "wait" /\ Undelivered(phase) = {}) => ENABLED PhaseReturn

\* the channels of the index fan-outs were filled to their capacity, and
\* the upload channel holds all results but that of one worker still
\* running
C22_Witness ==
    /\ Len(errs[2]) = NumRepos
    /\ Len(revErrs[1]) = Cardinality(Revs(1))
    /\ Len(errs[3]) = Total - 1
    /\ Cardinality(Undelivered(3)) = 1
    /\ mainPc = "wait"

\* C23: a step of an index task leaves every clone directory as it is and
\* changes no workspace and no artifact file but the task's own.
C23_IndexFrame ==
    [][\A t \in Tasks :
          (idxPc[t] # "idle" /\ idxPc'[t] # idxPc[t] /\ idxPc'[t] # "idle") =>
             /\ cloneDir' = cloneDir
             /\ \A u \in Tasks \ {t} :
                   /\ workspace'[u] = workspace[u]
                   /\ artifact'[u] = artifact[u]
      ]_vars

\* both revisions of a repository were indexed from the one clone, each
\* running all four commands, and the clone directory is as the clone
\* phase left it
C23_Witness ==
    /\ ran[<<1, 1>>] = Commands /\ ran[<<1, 2>>] = Commands
    /\ artifact0[<<1, 1>>] = "absent" /\ artifact[<<1, 1>>] = "complete"
    /\ artifact0[<<1, 2>>] = "absent" /\ artifact[<<1, 2>>] = "partial"
    /\ cloneAttempts[1] = 1 /\ cloneDir[1] = "present"

\* C24: every query made on a BundleClient obtained from the ObservedClient
\* enters ObservedClient.QueryBundle with the bundle id of that BundleClient:
\* when it starts it is forwarded once to the wrapped client with that id,
\* while it runs it is neither forwarded again nor counted, and when it
\* returns it has added exactly one observation to the QueryBundle metrics
\* and the wrapped client has been called exactly once for it; nothing of
\* the query is left in the BundleClient afterwards
C24_InstrumentedBundleQueries ==
    [][\A k \in ObsCallers :
          /\ (oBundle[k] = NoBundle /\ oBundle'[k] # NoBundle) =>
                /\ oOp'[k] = "QueryBundle"
                /\ oBundle'[k].received = oBundle'[k].asked
                /\ forwarded'[k] = forwarded[k] + 1
                /\ baseLog'[k] = baseLog[k]
                /\ mCount' = mCount /\ mDuration' = mDuration
          /\ (oBundle[k] # NoBundle /\ oBundle'[k] # NoBundle /\ oPc'[k] # oPc[k]) =>
                /\ oBundle'[k] = oBundle[k]
                /\ forwarded'[k] = forwarded[k]
                /\ Len(baseLog'[k]) = Len(baseLog[k]) + 1
                /\ baseLog'[k][Len(baseLog'[k])][1] = "QueryBundle"
                /\ mCount' = mCount /\ mDuration' = mDuration
          /\ (oBundle[k] # NoBundle /\ oBundle'[k] = NoBundle) =>
                /\ oPc[k] = "defer" /\ oPc'[k] = "idle"
                /\ forwarded'[k] = forwarded[k]
                /\ baseLog'[k] = baseLog[k]
                /\ mCount' = [mCount EXCEPT !["QueryBundle"] = @ + 1]
                /\ mDuration' = [mDuration EXCEPT !["QueryBundle"] = @ + 1]
      ]_vars

\* a second query on the BundleClient of bundle 2 has come back from the
\* wrapped client and is about to be observed, after a first query on it was
\* observed and returned
C24_Witness ==
    \E k \in ObsCallers :
        /\ oBundle[k] = [asked |-> 2, received |-> 2]
        /\ oPc[k] = "defer"
        /\ Len(obsLog[k]) = 1 /\ obsLog[k][1][1] = "QueryBundle"
        /\ mCount = [op \in ObsOps |-> IF op = "QueryBundle" THEN 1 ELSE 0]
        /\ forwarded[k] = 2

\* C25: an operation of the client that has returned an error has returned
\* no path with it (GetUpload is the one operation that returns paths): a
\* non-empty path comes only together with a nil error, whichever of the
\* request, the status, the creation of the file, the copy or the closing of
\* the written file failed
C25_GetUploadResultConsistent ==
    \A k \in Callers :
       (cPc[k] = "returned" /\ cRes[k].err # Nil) => cRes[k].path = ""

\* C26: in a run that follows a run in which all three phases succeeded
\* (exit code 0), no step changes a clone directory or an artifact file, no
\* git clone has been attempted, no index task has created a workspace or
\* invoked a subprocess, and when the run is over upload has been invoked
\* exactly once for every (repository, revision) pair
C26_RerunIdempotent ==
    [][(prevExit = 0 /\ prevExit' = 0) =>
          /\ cloneDir' = cloneDir
          /\ artifact' = artifact
          /\ \A r \in Repos : cloneAttempts'[r] = 0
          /\ \A t \in Tasks : ran'[t] = <<>> /\ ~wsCreated'[t] /\ ~workspace'[t]
          /\ mainPc' = "exited" => \A t \in Tasks : uploads'[t] = 1
      ]_vars

\* the second run is over with exit code 0 after a first run with exit code
\* 0: it found every clone and every artifact, ran nothing, and uploaded
\* every pair again
C26_Witness ==
    /\ run = 2 /\ prevExit = 0
    /\ mainPc = "exited" /\ exitCode = 0
    /\ \A r \in Repos : cloneSeen[r] = "present" /\ cloneAttempts[r] = 0
    /\ \A t \in Tasks : ran[t] = <<>> /\ artifact[t] = artifact0[t]
    /\ \A t \in Tasks : uploads[t] = 1 /\ upErr[t] = Nil

(***************************************************************************)
(* Specifications                                                          *)
(***************************************************************************)
\* the orchestrator before main has run, on an empty disk
\* the path derivation before it has been given entries to work on
KeysIdle == [owner |-> "o1", name |-> <<"a">>, rev |-> <<"a">>]

InitKeysIdle == InitKeys /\ entryA = KeysIdle /\ entryB = KeysIdle

OrchIdle ==
    /\ InitOrch
    /\ cloneDir = [r \in Repos |-> "absent"]
    /\ artifact = [t \in Tasks |-> "absent"]

Init == InitOrch /\ InitClient /\ InitObs /\ InitRT /\ InitKeysIdle

Spec == Init /\ [][NextOrch]_vars

InitClientOnly == OrchIdle /\ InitClient /\ InitObs /\ InitRT /\ InitKeysIdle

SpecClient == InitClientOnly /\ [][NextClient]_vars

InitObserved == OrchIdle /\ InitClient /\ InitObs /\ InitRT /\ InitKeysIdle

SpecObserved == InitObserved /\ [][NextObs]_vars

InitRoundTrip == OrchIdle /\ InitClient /\ InitObs /\ InitRT /\ InitKeysIdle

SpecRoundTrip == InitRoundTrip /\ [][NextRT]_vars

InitCacheKeys == OrchIdle /\ InitClient /\ InitObs /\ InitRT /\ InitKeys

SpecCacheKeys == InitCacheKeys /\ [][NextKeys]_vars

\* the first run starts on an empty disk
InitRerun == OrchIdle /\ InitClient /\ InitObs /\ InitRT /\ InitKeysIdle

SpecRerun == InitRerun /\ [][NextRerun]_vars

InitObservedAny == OrchIdle /\ InitClient /\ InitObsAny /\ InitRT /\ InitKeysIdle

SpecObservedAny == InitObservedAny /\ [][NextObs]_vars

SpecCancel == InitClientOnly /\ [][NextCancel]_vars /\ FairCancel

====
